---- MODULE Spec2Model ----
(***************************************************************************)
(* A model of naming_lib: the detector (which_case and the six is_*        *)
(* predicates, src/src/detector.rs) and the converter (NamingCase, its     *)
(* to_* methods, from_hungarian_notation and the word extraction helpers,  *)
(* src/src/naming_case.rs), together with the string builders of the       *)
(* integration tests (src/tests/common/mod.rs).                            *)
(*                                                                         *)
(* A string is a sequence of characters; a character is one of the tokens  *)
(* of Alphabet.  The tokens stand for the character classes the code       *)
(* distinguishes: ASCII lowercase and uppercase letters, an ASCII digit,   *)
(* the two separators, another ASCII punctuation mark, a non-ASCII decimal *)
(* digit (U+0663, general category Nd, two bytes in UTF-8) and a non-ASCII *)
(* letter (U+00E9, two bytes in UTF-8).                                    *)
(***************************************************************************)
EXTENDS Naturals, Integers, Sequences, FiniteSets, TLC

\* Longest input string the specifications enumerate.
MaxLen == 3

\* Longest word the test-helper specification enumerates.
MaxWordLen == 2

(***************************************************************************)
(* Characters.                                                             *)
(***************************************************************************)
AsciiLower == {"a"}
AsciiUpper == {"A"}
AsciiDigit == {"1"}
\* Decimal digits outside ASCII (Unicode general category Nd).
UnicodeDigit == {"U+0663"}
\* Letters outside ASCII.
UnicodeLetter == {"U+00E9"}
Punct == {"_", "-", "@"}

Alphabet == AsciiLower \cup AsciiUpper \cup AsciiDigit \cup UnicodeDigit
              \cup UnicodeLetter \cup Punct

IsAscii(c) == c \in AsciiLower \cup AsciiUpper \cup AsciiDigit \cup Punct

\* Length of the UTF-8 encoding of a character.
Utf8Len(c) == IF IsAscii(c) THEN 1 ELSE 2

\* char::to_ascii_uppercase / to_ascii_lowercase: only ASCII letters change.
UpperOf == [c \in AsciiLower |-> "A"]
LowerOf == [c \in AsciiUpper |-> "a"]

CharToAsciiUppercase(c) == IF c \in AsciiLower THEN UpperOf[c] ELSE c
CharToAsciiLowercase(c) == IF c \in AsciiUpper THEN LowerOf[c] ELSE c

\* str::to_ascii_uppercase / to_ascii_lowercase.
to_ascii_uppercase(s) == [i \in 1..Len(s) |-> CharToAsciiUppercase(s[i])]
to_ascii_lowercase(s) == [i \in 1..Len(s) |-> CharToAsciiLowercase(s[i])]

(***************************************************************************)
(* Regular expressions, as the regex crate matches them.  An expression is *)
(* a record: a character class, a concatenation, an alternation, a star or *)
(* a plus.  Ends(re, s, i) is the set of positions just after a match of   *)
(* re that starts at position i of s.                                      *)
(***************************************************************************)
Cls(set) == [k |-> "cls", c |-> set]
Cat(rs) == [k |-> "cat", rs |-> rs]
Alt(rs) == [k |-> "alt", rs |-> rs]
Star(r) == [k |-> "star", r |-> r]
Plus(r) == [k |-> "plus", r |-> r]

\* [a-z], [A-Z]: ASCII ranges.
ReLower == Cls(AsciiLower)
ReUpper == Cls(AsciiUpper)
\* \d: the regex crate is Unicode-aware by default, \d is \p{Nd}.
ReDigit == Cls(AsciiDigit \cup UnicodeDigit)
ReChar(c) == Cls({c})

RECURSIVE Ends(_, _, _), EndsFrom(_, _, _), EndsCat(_, _, _, _), EndsStar(_, _, _, _)

\* The ends of the matches of re that start at one of the positions of from.
EndsFrom(re, s, from) == UNION {Ends(re, s, i) : i \in from}

EndsCat(rs, n, s, from) ==
    IF n > Len(rs) \/ from = {} THEN from
    ELSE EndsCat(rs, n + 1, s, EndsFrom(rs[n], s, from))

\* Zero or more matches of r: reached holds the ends found so far, frontier
\* those of them not yet extended by one more match.
EndsStar(r, s, frontier, reached) ==
    LET new == EndsFrom(r, s, frontier) \ reached
    IN IF new = {} THEN reached ELSE EndsStar(r, s, new, reached \cup new)

Ends(re, s, i) ==
    CASE re.k = "cls" -> IF i <= Len(s) /\ s[i] \in re.c THEN {i + 1} ELSE {}
      [] re.k = "cat" -> EndsCat(re.rs, 1, s, {i})
      [] re.k = "alt" -> UNION {Ends(re.rs[n], s, i) : n \in 1..Len(re.rs)}
      [] re.k = "star" -> EndsStar(re.r, s, {i}, {i})
      [] re.k = "plus" -> LET once == Ends(re.r, s, i) IN EndsStar(re.r, s, once, once)

\* Regex::is_match for a pattern written ^re$: the whole text matches.
IsFullMatch(re, s) == (Len(s) + 1) \in Ends(re, s, 1)

SetMax(S) == CHOOSE x \in S : \A y \in S : y <= x

(***************************************************************************)
(* detector.rs                                                             *)
(***************************************************************************)
\* ^(?:[a-z]+|[A-Z]+|[A-Z][a-z]+)\d*$
SINGLE_WORD_REGEX ==
    Cat(<<Alt(<<Plus(ReLower), Plus(ReUpper), Cat(<<ReUpper, Plus(ReLower)>>)>>),
          Star(ReDigit)>>)

\* ^[A-Z]+\d*(_[A-Z]+\d*)*$
SCREAMING_SNAKE_REGEX ==
    Cat(<<Plus(ReUpper), Star(ReDigit),
          Star(Cat(<<ReChar("_"), Plus(ReUpper), Star(ReDigit)>>))>>)

\* ^[a-z]+\d*(_[a-z]+\d*)*$
SNAKE_REGEX ==
    Cat(<<Plus(ReLower), Star(ReDigit),
          Star(Cat(<<ReChar("_"), Plus(ReLower), Star(ReDigit)>>))>>)

\* ^[a-z]+\d*(-[a-z]+\d*)*$
KEBAB_REGEX ==
    Cat(<<Plus(ReLower), Star(ReDigit),
          Star(Cat(<<ReChar("-"), Plus(ReLower), Star(ReDigit)>>))>>)

\* ^[a-z]+\d*([A-Z][a-z]*\d*)*$
CAMEL_REGEX ==
    Cat(<<Plus(ReLower), Star(ReDigit),
          Star(Cat(<<ReUpper, Star(ReLower), Star(ReDigit)>>))>>)

\* ^([A-Z][a-z]*\d*)+$
PASCAL_REGEX == Plus(Cat(<<ReUpper, Star(ReLower), Star(ReDigit)>>))

is_single_word(word) == IsFullMatch(SINGLE_WORD_REGEX, word)
is_screaming_snake(identifier) == IsFullMatch(SCREAMING_SNAKE_REGEX, identifier)
is_snake(identifier) == IsFullMatch(SNAKE_REGEX, identifier)
\* is_kebab with the separator class of a regex copied from is_snake: [_-].
is_kebab_underscore_too(identifier) ==
    IsFullMatch(Cat(<<Plus(ReLower), Star(ReDigit),
                      Star(Cat(<<Cls({"_", "-"}), Plus(ReLower), Star(ReDigit)>>))>>),
                identifier)

is_kebab(identifier) == IsFullMatch(KEBAB_REGEX, identifier)
\* is_camel whose first group takes letters of either case: ^[A-Za-z]+...
is_camel_any_first(identifier) ==
    IsFullMatch(Cat(<<Plus(Cls(AsciiLower \cup AsciiUpper)), Star(ReDigit),
                      Star(Cat(<<ReUpper, Star(ReLower), Star(ReDigit)>>))>>),
                identifier)

is_camel(identifier) == IsFullMatch(CAMEL_REGEX, identifier)
is_pascal(identifier) == IsFullMatch(PASCAL_REGEX, identifier)

\* A NamingCase value: the variant and the string it wraps.
NamingCase(tag, s) == [tag |-> tag, s |-> s]

Tags == {"SingleWord", "ScreamingSnake", "Snake", "Kebab", "Camel", "Pascal", "Invalid"}

\* which_case with the screaming snake check moved in front of the single word check.
which_case_screaming_first(identifier) ==
    IF is_screaming_snake(identifier) THEN NamingCase("ScreamingSnake", identifier)
    ELSE IF is_single_word(identifier) THEN NamingCase("SingleWord", identifier)
    ELSE IF is_snake(identifier) THEN NamingCase("Snake", identifier)
    ELSE IF is_kebab(identifier) THEN NamingCase("Kebab", identifier)
    ELSE IF is_camel(identifier) THEN NamingCase("Camel", identifier)
    ELSE IF is_pascal(identifier) THEN NamingCase("Pascal", identifier)
    ELSE NamingCase("Invalid", identifier)

which_case(identifier) ==
    IF is_single_word(identifier) THEN NamingCase("SingleWord", identifier)
    ELSE IF is_screaming_snake(identifier) THEN NamingCase("ScreamingSnake", identifier)
    ELSE IF is_snake(identifier) THEN NamingCase("Snake", identifier)
    ELSE IF is_kebab(identifier) THEN NamingCase("Kebab", identifier)
    ELSE IF is_camel(identifier) THEN NamingCase("Camel", identifier)
    ELSE IF is_pascal(identifier) THEN NamingCase("Pascal", identifier)
    ELSE NamingCase("Invalid", identifier)

\* Display with an Invalid arm that writes a fixed text instead of the string.
to_string_invalid_blank(case) ==
    IF case.tag = "Invalid" THEN <<>> ELSE case.s

\* impl Display for NamingCase: every arm writes the wrapped string.
to_string(case) ==
    CASE case.tag = "SingleWord" -> case.s
      [] case.tag = "ScreamingSnake" -> case.s
      [] case.tag = "Snake" -> case.s
      [] case.tag = "Kebab" -> case.s
      [] case.tag = "Camel" -> case.s
      [] case.tag = "Pascal" -> case.s
      [] case.tag = "Invalid" -> case.s

(***************************************************************************)
(* naming_case.rs                                                          *)
(***************************************************************************)
\* ^[a-z]+\d*  (anchored at the start only)
LOWER_CASE_REGEX == Cat(<<Plus(ReLower), Star(ReDigit)>>)

\* [A-Z][a-z]*\d*  (not anchored)
FIRST_UPPER_CASE_REGEX == Cat(<<ReUpper, Star(ReLower), Star(ReDigit)>>)

\* Regex::captures(..).get(0) for a pattern anchored with ^: the match at the
\* start of the text, if any.  Every repetition of the patterns used here is
\* greedy and they have no alternation, so the match found is the longest.
CapturesAtStart(re, s) ==
    LET ends == Ends(re, s, 1)
    IN IF ends = {} THEN [found |-> FALSE, str |-> <<>>]
       ELSE [found |-> TRUE, str |-> SubSeq(s, 1, SetMax(ends) - 1)]

\* Regex::find_iter: the successive non-overlapping matches, leftmost first.
RECURSIVE FindIter(_, _, _)
FindIter(re, s, i) ==
    IF i > Len(s) THEN <<>>
    ELSE LET ends == Ends(re, s, i)
         IN IF ends = {} THEN FindIter(re, s, i + 1)
            ELSE LET e == SetMax(ends)
                 IN <<SubSeq(s, i, e - 1)>> \o FindIter(re, s, IF e = i THEN i + 1 ELSE e)

\* str::strip_prefix
strip_prefix(s, prefix) ==
    IF Len(prefix) <= Len(s) /\ SubSeq(s, 1, Len(prefix)) = prefix
    THEN [some |-> TRUE, str |-> SubSeq(s, Len(prefix) + 1, Len(s))]
    ELSE [some |-> FALSE, str |-> <<>>]

\* str::split(char): the pieces between the separators, empty pieces included.
RECURSIVE SplitFrom(_, _, _, _)
SplitFrom(s, sep, i, cur) ==
    IF i > Len(s) THEN <<cur>>
    ELSE IF s[i] = sep THEN <<cur>> \o SplitFrom(s, sep, i + 1, <<>>)
    ELSE SplitFrom(s, sep, i + 1, Append(cur, s[i]))

split(s, sep) == SplitFrom(s, sep, 1, <<>>)

\* [String]::join(sep), sep a string.
RECURSIVE join(_, _)
join(words, sep) ==
    IF Len(words) = 0 THEN <<>>
    ELSE IF Len(words) = 1 THEN words[1]
    ELSE words[1] \o sep \o join(Tail(words), sep)

\* Results.  kind is "Ok", "Err" (the Err of a Result) or "Panic" (the thread
\* panicked: an unwrap of None, or a split_at off a character boundary).
OkWords(ws) == [kind |-> "Ok", words |-> ws]
ErrWords == [kind |-> "Err", words |-> <<>>]
PanicWords == [kind |-> "Panic", words |-> <<>>]

Ok(str) == [kind |-> "Ok", val |-> str]
Err == [kind |-> "Err", val |-> <<>>]
Panic == [kind |-> "Panic", val |-> <<>>]

extract_words_from_pascal(s) == FindIter(FIRST_UPPER_CASE_REGEX, s, 1)

\* extract_words_from without the Kebab arm: Kebab falls into the error arm.
extract_words_from_no_kebab(case) ==
    CASE case.tag = "SingleWord" -> OkWords(<<case.s>>)
      [] case.tag = "ScreamingSnake" -> OkWords(split(case.s, "_"))
      [] case.tag = "Snake" -> OkWords(split(case.s, "_"))
      [] case.tag = "Camel" ->
            LET cap == CapturesAtStart(LOWER_CASE_REGEX, case.s)
            IN IF ~cap.found THEN PanicWords
               ELSE OkWords(<<to_ascii_lowercase(cap.str)>>
                            \o extract_words_from_pascal(strip_prefix(case.s, cap.str).str))
      [] case.tag = "Pascal" -> OkWords(extract_words_from_pascal(case.s))
      [] OTHER -> ErrWords

extract_words_from(case) ==
    CASE case.tag = "SingleWord" -> OkWords(<<case.s>>)
      [] case.tag = "ScreamingSnake" -> OkWords(split(case.s, "_"))
      [] case.tag = "Snake" -> OkWords(split(case.s, "_"))
      [] case.tag = "Kebab" -> OkWords(split(case.s, "-"))
      [] case.tag = "Camel" ->
            LET cap == CapturesAtStart(LOWER_CASE_REGEX, case.s)
            IN IF ~cap.found THEN PanicWords
               ELSE LET first_word == cap.str
                        other_words == strip_prefix(case.s, first_word)
                    IN IF ~other_words.some THEN PanicWords
                       ELSE OkWords(<<to_ascii_lowercase(first_word)>>
                                    \o extract_words_from_pascal(other_words.str))
      [] case.tag = "Pascal" -> OkWords(extract_words_from_pascal(case.s))
      [] case.tag = "Invalid" -> ErrWords

\* to_first_uppercase that forgets to lowercase the remainder.
to_first_uppercase_rest_kept(s) ==
    IF Len(s) = 0 \/ Utf8Len(s[1]) > 1 THEN Panic
    ELSE Ok(to_ascii_uppercase(<<s[1]>>) \o Tail(s))

\* s.split_at(1) panics when byte 1 is past the end or inside a character.
to_first_uppercase(s) ==
    IF Len(s) = 0 \/ Utf8Len(s[1]) > 1 THEN Panic
    ELSE Ok(to_ascii_uppercase(<<s[1]>>) \o to_ascii_lowercase(Tail(s)))

compose_words_to_pascal(words) ==
    LET caps == [i \in 1..Len(words) |-> to_first_uppercase(words[i])]
    IN IF \E i \in 1..Len(words) : caps[i].kind = "Panic" THEN Panic
       ELSE Ok(join([i \in 1..Len(words) |-> caps[i].val], <<>>))

\* to_screaming_snake that joins the words without uppercasing them.
to_screaming_snake_keep_case(case) ==
    LET words == extract_words_from(case)
    IN IF words.kind = "Ok" THEN Ok(join(words.words, <<"_">>))
       ELSE [kind |-> words.kind, val |-> <<>>]

to_screaming_snake(case) ==
    LET words == extract_words_from(case)
    IN IF words.kind = "Ok"
       THEN Ok(join([i \in 1..Len(words.words) |-> to_ascii_uppercase(words.words[i])], <<"_">>))
       ELSE [kind |-> words.kind, val |-> <<>>]

\* to_snake that joins the words without lowercasing them.
to_snake_keep_case(case) ==
    LET words == extract_words_from(case)
    IN IF words.kind = "Ok" THEN Ok(join(words.words, <<"_">>))
       ELSE [kind |-> words.kind, val |-> <<>>]

to_snake(case) ==
    LET words == extract_words_from(case)
    IN IF words.kind = "Ok"
       THEN Ok(join([i \in 1..Len(words.words) |-> to_ascii_lowercase(words.words[i])], <<"_">>))
       ELSE [kind |-> words.kind, val |-> <<>>]

to_kebab(case) ==
    LET words == extract_words_from(case)
    IN IF words.kind = "Ok"
       THEN Ok(join([i \in 1..Len(words.words) |-> to_ascii_lowercase(words.words[i])], <<"-">>))
       ELSE [kind |-> words.kind, val |-> <<>>]

\* to_camel that leaves the first word as it was extracted.
to_camel_first_word_kept(case) ==
    LET words == extract_words_from(case)
    IN IF words.kind # "Ok" THEN [kind |-> words.kind, val |-> <<>>]
       ELSE IF Len(words.words) = 0 THEN Panic
       ELSE LET rest == compose_words_to_pascal(Tail(words.words))
            IN IF rest.kind = "Panic" THEN Panic
               ELSE Ok(Head(words.words) \o rest.val)

to_camel(case) ==
    LET words == extract_words_from(case)
    IN IF words.kind # "Ok" THEN [kind |-> words.kind, val |-> <<>>]
       ELSE IF Len(words.words) = 0 THEN Panic
       ELSE LET first_word == Head(words.words)
                rest == compose_words_to_pascal(Tail(words.words))
            IN IF rest.kind = "Panic" THEN Panic
               ELSE Ok(to_ascii_lowercase(first_word) \o rest.val)

to_pascal(case) ==
    LET words == extract_words_from(case)
    IN IF words.kind = "Ok" THEN compose_words_to_pascal(words.words)
       ELSE [kind |-> words.kind, val |-> <<>>]

\* from_hungarian_notation without the iter.next() that discards the first word.
from_hungarian_notation_keep_first(identifier) ==
    LET real_case == which_case(identifier)
    IN IF real_case # NamingCase("Camel", identifier)
       THEN [kind |-> "Ok", case |-> NamingCase("Invalid", identifier)]
       ELSE LET words == extract_words_from(real_case)
            IN IF words.kind # "Ok"
               THEN [kind |-> "Panic", case |-> NamingCase("Invalid", <<>>)]
               ELSE [kind |-> "Ok", case |-> NamingCase("Pascal", join(words.words, <<>>))]

\* from_hungarian_notation that lets a Pascal identifier through as well.
from_hungarian_notation_accepts_pascal(identifier) ==
    LET real_case == which_case(identifier)
    IN IF real_case.tag \notin {"Camel", "Pascal"}
       THEN [kind |-> "Ok", case |-> NamingCase("Invalid", identifier)]
       ELSE LET words == extract_words_from(real_case)
            IN IF words.kind # "Ok"
               THEN [kind |-> "Panic", case |-> NamingCase("Invalid", <<>>)]
               ELSE [kind |-> "Ok",
                     case |-> NamingCase("Pascal",
                         join(SubSeq(words.words, 2, Len(words.words)), <<>>))]

\* from_hungarian_notation that tests is_camel(identifier) instead of comparing
\* the value which_case returned: a single lowercase word passes the test.
from_hungarian_notation_is_camel(identifier) ==
    IF ~is_camel(identifier)
    THEN [kind |-> "Ok", case |-> NamingCase("Invalid", identifier)]
    ELSE LET words == extract_words_from(NamingCase("Camel", identifier))
         IN IF words.kind # "Ok"
            THEN [kind |-> "Panic", case |-> NamingCase("Invalid", <<>>)]
            ELSE [kind |-> "Ok",
                  case |-> NamingCase("Pascal",
                      join(SubSeq(words.words, 2, Len(words.words)), <<>>))]

\* The value returned, or a panic of the unwrap.
from_hungarian_notation(identifier) ==
    LET real_case == which_case(identifier)
    IN IF real_case # NamingCase("Camel", identifier)
       THEN [kind |-> "Ok", case |-> NamingCase("Invalid", identifier)]
       ELSE LET words == extract_words_from(real_case)
            IN IF words.kind # "Ok"
               THEN [kind |-> "Panic", case |-> NamingCase("Invalid", <<>>)]
               ELSE [kind |-> "Ok",
                     case |-> NamingCase("Pascal",
                         join(SubSeq(words.words, 2, Len(words.words)), <<>>))]

Targets == {"screaming_snake", "snake", "kebab", "camel", "pascal"}

\* The conversion method named by a target.
Convert(target, case) ==
    CASE target = "screaming_snake" -> to_screaming_snake(case)
      [] target = "snake" -> to_snake(case)
      [] target = "kebab" -> to_kebab(case)
      [] target = "camel" -> to_camel(case)
      [] target = "pascal" -> to_pascal(case)

\* The detector predicate of a target.
Checker(target, s) ==
    CASE target = "screaming_snake" -> is_screaming_snake(s)
      [] target = "snake" -> is_snake(s)
      [] target = "kebab" -> is_kebab(s)
      [] target = "camel" -> is_camel(s)
      [] target = "pascal" -> is_pascal(s)

(***************************************************************************)
(* tests/common/mod.rs: the builders of the five format strings.  The      *)
(* number of repetitions is rng.gen_range(1..6), an input of the builder.  *)
(***************************************************************************)
MaxRepeat == 5

RECURSIVE repeat(_, _)
repeat(s, n) == IF n = 0 THEN <<>> ELSE s \o repeat(s, n - 1)

\* str::strip_suffix
strip_suffix(s, suffix) ==
    IF Len(suffix) <= Len(s) /\ SubSeq(s, Len(s) - Len(suffix) + 1, Len(s)) = suffix
    THEN [some |-> TRUE, str |-> SubSeq(s, 1, Len(s) - Len(suffix))]
    ELSE [some |-> FALSE, str |-> <<>>]

\* The unwrap of strip_suffix cannot fail: the repeated text ends with sep.
join_random_repeated_word_with_separator(word, sep, n) ==
    strip_suffix(repeat(word \o sep, n), sep).str

build_underline_str_from(word, n) == join_random_repeated_word_with_separator(word, <<"_">>, n)
build_dash_str_from(word, n) == join_random_repeated_word_with_separator(word, <<"-">>, n)
build_no_separator_str_from(word, n) == join_random_repeated_word_with_separator(word, <<>>, n)

build_screaming_snake_str(word, n) == build_underline_str_from(to_ascii_uppercase(word), n)
build_snake_str(word, n) == build_underline_str_from(to_ascii_lowercase(word), n)
build_kebab_str(word, n) == build_dash_str_from(to_ascii_lowercase(word), n)
build_camel_str(word, n) ==
    to_ascii_lowercase(word) \o build_no_separator_str_from(to_first_uppercase(word).val, n)
build_pascal_str(word, n) == build_no_separator_str_from(to_first_uppercase(word).val, n)

\* n[i] is the number of repetitions drawn while building the i-th string.
build_all_format_str(word, n) ==
    <<build_screaming_snake_str(word, n[1]),
      build_snake_str(word, n[2]),
      build_kebab_str(word, n[3]),
      build_camel_str(word, n[4]),
      build_pascal_str(word, n[5])>>

is_not_valid_single_word(word) == ~is_single_word(word)

\* The order of the five predicates in the tests, and of the five builders.
Formats == <<"screaming_snake", "snake", "kebab", "camel", "pascal">>

\* The number of true results among the 25 predicate evaluations.
match_count(ss) ==
    Cardinality({ij \in (1..Len(ss)) \X (1..Len(Formats)) : Checker(Formats[ij[2]], ss[ij[1]])})

(***************************************************************************)
(* The state: an input string, the NamingCase value made from it, how it   *)
(* was made, and the result of the method called on it.                    *)
(***************************************************************************)
VARIABLES identifier, case, origin, result, target, prev, strs, verdict

vars == <<identifier, case, origin, result, target, prev, strs, verdict>>

NoCase == [tag |-> "None", s |-> <<>>]
NoResult == [kind |-> "None", val |-> <<>>]
NoPrev == [case |-> NoCase, target |-> "none", result |-> NoResult]

StringsUpTo(n) == UNION {[1..k -> Alphabet] : k \in 0..n}

Init ==
    /\ identifier \in StringsUpTo(MaxLen)
    /\ case = NoCase
    /\ origin = "none"
    /\ result = NoResult
    /\ target = "none"
    /\ prev = NoPrev
    /\ strs = <<>>
    /\ verdict = "none"

\* which_case(identifier), NamingCase::new(identifier), from(identifier)
WhichCase ==
    /\ origin = "none"
    /\ case' = which_case(identifier)
    /\ origin' = "which_case"
    /\ UNCHANGED <<identifier, result, target, prev, strs, verdict>>

\* A value of an enum variant made directly: NamingCase::Snake(identifier), ...
New ==
    /\ origin = "none"
    /\ \E tag \in Tags : case' = NamingCase(tag, identifier)
    /\ origin' = "direct"
    /\ UNCHANGED <<identifier, result, target, prev, strs, verdict>>

FromHungarianNotation ==
    /\ origin = "none"
    /\ LET r == from_hungarian_notation(identifier)
       IN IF r.kind = "Ok"
          THEN case' = r.case /\ UNCHANGED result
          ELSE case' = NoCase /\ result' = Panic
    /\ origin' = "from_hungarian_notation"
    /\ UNCHANGED <<identifier, target, prev, strs, verdict>>

\* A method is called on the value, once.
CanCall == case # NoCase /\ result = NoResult

Call(t) ==
    /\ CanCall
    /\ result' = Convert(t, case)
    /\ target' = t
    /\ UNCHANGED <<identifier, case, origin, prev, strs, verdict>>

ToScreamingSnake == Call("screaming_snake")
ToSnake == Call("snake")
ToKebab == Call("kebab")
ToCamel == Call("camel")
ToPascal == Call("pascal")

DisplayFmt ==
    /\ CanCall
    /\ result' = Ok(to_string(case))
    /\ target' = "to_string"
    /\ UNCHANGED <<identifier, case, origin, prev, strs, verdict>>

\* The caller classifies the string a conversion returned: which_case(r).
WhichCaseOfResult ==
    /\ origin = "which_case"
    /\ prev = NoPrev
    /\ target \in Targets
    /\ result.kind = "Ok"
    /\ prev' = [case |-> case, target |-> target, result |-> result]
    /\ identifier' = result.val
    /\ case' = which_case(result.val)
    /\ result' = NoResult
    /\ target' = "none"
    /\ UNCHANGED <<origin, strs, verdict>>

Next ==
    \/ WhichCase
    \/ New
    \/ FromHungarianNotation
    \/ ToScreamingSnake
    \/ ToSnake
    \/ ToKebab
    \/ ToCamel
    \/ ToPascal
    \/ DisplayFmt
    \/ WhichCaseOfResult

Spec == Init /\ [][Next]_vars

(***************************************************************************)
(* tests/detector.rs: the property test                                    *)
(* valid_strings_that_more_than_one_word_should_only_be_recognized_as_     *)
(* only_one_format, run on one generated word.                             *)
(***************************************************************************)
InitFormats ==
    /\ identifier \in StringsUpTo(MaxWordLen)
    /\ case = NoCase
    /\ origin = "none"
    /\ result = NoResult
    /\ target = "none"
    /\ prev = NoPrev
    /\ strs = <<>>
    /\ verdict = "none"

OnlyOneFormatTest ==
    /\ verdict = "none"
    /\ IF is_not_valid_single_word(identifier)
       THEN strs' = <<>> /\ verdict' = "discard"
       ELSE \E n \in [1..5 -> 1..MaxRepeat] :
              /\ strs' = build_all_format_str(identifier, n)
              /\ verdict' = IF \E i \in 1..5 : is_single_word(strs'[i]) THEN "discard"
                            ELSE IF match_count(strs') = 5 THEN "pass"
                            ELSE "fail"
    /\ UNCHANGED <<identifier, case, origin, result, target, prev>>

NextFormats == OnlyOneFormatTest

SpecFormats == InitFormats /\ [][NextFormats]_vars

(***************************************************************************)
(* Properties.                                                             *)
(***************************************************************************)
\* The grammars in the order which_case tries them.
GrammarOrder == <<"SingleWord", "ScreamingSnake", "Snake", "Kebab", "Camel", "Pascal">>

\* The standalone predicate of a tag.
Matches(tag, s) ==
    CASE tag = "SingleWord" -> is_single_word(s)
      [] tag = "ScreamingSnake" -> is_screaming_snake(s)
      [] tag = "Snake" -> is_snake(s)
      [] tag = "Kebab" -> is_kebab(s)
      [] tag = "Camel" -> is_camel(s)
      [] tag = "Pascal" -> is_pascal(s)
      [] tag = "Invalid" -> TRUE

Classified == origin = "which_case" /\ case # NoCase

\* C1: which_case returns the tag of the first grammar the string matches, in
\* the order single word, screaming snake, snake, kebab, camel, pascal, and
\* Invalid exactly when it matches none; so the predicate of the tag returned
\* is true, and a string of the single-word grammar is tagged SingleWord.
C1_FirstMatchWins ==
    Classified =>
        /\ case.s = identifier
        /\ case.tag \in Tags
        /\ \A n \in 1..Len(GrammarOrder) :
              case.tag = GrammarOrder[n] <=>
                 /\ Matches(GrammarOrder[n], identifier)
                 /\ \A m \in 1..(n - 1) : ~Matches(GrammarOrder[m], identifier)
        /\ case.tag = "Invalid" <=>
              \A n \in 1..Len(GrammarOrder) : ~Matches(GrammarOrder[n], identifier)
        /\ is_single_word(identifier) => case.tag = "SingleWord"

\* An all-uppercase word: it matches the screaming snake and pascal grammars
\* too, and is tagged SingleWord.
C1_Witness ==
    /\ Classified
    /\ case.tag = "SingleWord"
    /\ is_screaming_snake(identifier)
    /\ is_pascal(identifier)
    /\ Len(identifier) >= 2

\* C2: the value which_case returns carries the string unchanged:
\* which_case(s).to_string() = s, for every s.
C2_DisplayRoundTrip ==
    (origin = "which_case" /\ target = "to_string") => result = Ok(identifier)

\* to_string was called on the Invalid value of a string with a non-ASCII character.
C2_Witness ==
    /\ origin = "which_case"
    /\ target = "to_string"
    /\ case.tag = "Invalid"
    /\ \E i \in 1..Len(identifier) : ~IsAscii(identifier[i])
    /\ result.kind = "Ok"

\* The tag of the convention a conversion targets.
TagOf(t) ==
    CASE t = "screaming_snake" -> "ScreamingSnake"
      [] t = "snake" -> "Snake"
      [] t = "kebab" -> "Kebab"
      [] t = "camel" -> "Camel"
      [] t = "pascal" -> "Pascal"

Converted == case # NoCase /\ target \in Targets

\* C3: conversion closure.  For a string which_case does not tag Invalid,
\* every to_X returns Ok(r) and r satisfies the predicate is_X.
C3_ConversionClosure ==
    (Converted /\ origin = "which_case" /\ case.tag # "Invalid") =>
        /\ result.kind = "Ok"
        /\ Checker(target, result.val)

\* A pascal string of two words was converted to camel case.
C3_Witness ==
    /\ Converted
    /\ origin = "which_case"
    /\ prev = NoPrev
    /\ case.tag = "Pascal"
    /\ target = "camel"
    /\ result.kind = "Ok"
    /\ is_camel(result.val)

\* C4 as claimed: for every NamingCase value, however it was made, each to_X
\* returns Err if and only if the tag is Invalid and Ok for every other tag,
\* and never panics.
C4_Original ==
    Converted =>
        /\ result.kind = "Err" <=> case.tag = "Invalid"
        /\ case.tag # "Invalid" => result.kind = "Ok"

\* C4 as amended: for every NamingCase value whose string matches the grammar
\* of its tag (every value which_case returns is one), however it was made,
\* each to_X returns Err if and only if the tag is Invalid and Ok for every
\* other tag, and never panics.  (Matches is TRUE of the Invalid tag.)
C4_ErrIffInvalid ==
    (Converted /\ Matches(case.tag, case.s)) =>
        /\ result.kind = "Err" <=> case.tag = "Invalid"
        /\ case.tag # "Invalid" => result.kind = "Ok"

\* A directly made Kebab value of two words was converted to pascal case.
C4_Witness ==
    /\ Converted
    /\ origin = "direct"
    /\ case.tag = "Kebab"
    /\ is_kebab(case.s)
    /\ ~is_single_word(case.s)
    /\ target = "pascal"
    /\ result.kind = "Ok"

\* The n-th smallest element of a set of positions.
Nth(P, n) == CHOOSE p \in P : Cardinality({x \in P : x < p}) = n - 1

\* The pieces of s between consecutive positions of P; a piece starts off
\* characters after its position and ends just before the next position.
PiecesBetween(s, P, off) ==
    [n \in 1..(Cardinality(P) - 1) |-> SubSeq(s, Nth(P, n) + off, Nth(P, n + 1) - 1)]

PositionsOf(s, set) == {i \in 1..Len(s) : s[i] \in set}

IsDigitChar(c) == c \in AsciiDigit \cup UnicodeDigit

\* w is letters of one set followed by digits.
LettersThenDigits(w, letters) ==
    \E k \in 0..Len(w) :
        /\ \A i \in 1..k : w[i] \in letters
        /\ \A i \in (k + 1)..Len(w) : IsDigitChar(w[i])

\* The word sequence of a classified string, by the extraction rules: the
\* string itself; the pieces between separators; one word from each uppercase
\* letter to the next; the text before the first uppercase letter and then
\* one word from each uppercase letter to the next.
RefWords(tag, s) ==
    CASE tag = "SingleWord" -> <<s>>
      [] tag \in {"ScreamingSnake", "Snake"} ->
            PiecesBetween(s, {0, Len(s) + 1} \cup PositionsOf(s, {"_"}), 1)
      [] tag = "Kebab" ->
            PiecesBetween(s, {0, Len(s) + 1} \cup PositionsOf(s, {"-"}), 1)
      [] tag = "Pascal" ->
            PiecesBetween(s, {Len(s) + 1} \cup PositionsOf(s, AsciiUpper), 0)
      [] tag = "Camel" ->
            PiecesBetween(s, {1, Len(s) + 1} \cup PositionsOf(s, AsciiUpper), 0)

\* The shape the extraction rules give word n of a string of a tag.
RefWordShape(tag, n, w) ==
    CASE tag = "SingleWord" -> is_single_word(w)
      [] tag = "ScreamingSnake" -> Len(w) > 0 /\ w[1] \in AsciiUpper /\ LettersThenDigits(w, AsciiUpper)
      [] tag \in {"Snake", "Kebab"} -> Len(w) > 0 /\ w[1] \in AsciiLower /\ LettersThenDigits(w, AsciiLower)
      [] tag \in {"Camel", "Pascal"} ->
            IF tag = "Camel" /\ n = 1
            THEN Len(w) > 0 /\ w[1] \in AsciiLower /\ LettersThenDigits(w, AsciiLower)
            ELSE Len(w) > 0 /\ w[1] \in AsciiUpper /\ LettersThenDigits(Tail(w), AsciiLower)

RefCap(w) == <<CharToAsciiUppercase(w[1])>> \o to_ascii_lowercase(Tail(w))

RECURSIVE RefConcat(_, _)
RefConcat(ws, sep) ==
    IF ws = <<>> THEN <<>>
    ELSE LET front == RefConcat(SubSeq(ws, 1, Len(ws) - 1), sep)
         IN IF Len(ws) = 1 THEN ws[1] ELSE front \o sep \o ws[Len(ws)]

\* The reference composition of a word sequence under a target convention.
RefCompose(t, ws) ==
    CASE t = "screaming_snake" -> RefConcat([i \in 1..Len(ws) |-> to_ascii_uppercase(ws[i])], <<"_">>)
      [] t = "snake" -> RefConcat([i \in 1..Len(ws) |-> to_ascii_lowercase(ws[i])], <<"_">>)
      [] t = "kebab" -> RefConcat([i \in 1..Len(ws) |-> to_ascii_lowercase(ws[i])], <<"-">>)
      [] t = "camel" ->
            RefConcat([i \in 1..Len(ws) |->
                          IF i = 1 THEN to_ascii_lowercase(ws[i]) ELSE RefCap(ws[i])], <<>>)
      [] t = "pascal" -> RefConcat([i \in 1..Len(ws) |-> RefCap(ws[i])], <<>>)

\* C5: for a string which_case does not tag Invalid, with the word sequence
\* w1..wn given by the extraction rules, each conversion equals the reference
\* composition (upper/lower/cap of the words, joined by the separator of the
\* target); the result has the same number of words, in the same order, and
\* every digit of the string is in the result, unaltered and in order.
C5_ReferenceComposition ==
    (Converted /\ origin = "which_case" /\ case.tag # "Invalid") =>
        LET ws == RefWords(case.tag, case.s)
            rw == RefWords(TagOf(target), result.val)
        IN /\ \A n \in 1..Len(ws) : RefWordShape(case.tag, n, ws[n])
           /\ result = Ok(RefCompose(target, ws))
           /\ Len(rw) = Len(ws)
           /\ \A n \in 1..Len(ws) : to_ascii_lowercase(rw[n]) = to_ascii_lowercase(ws[n])
           /\ SelectSeq(result.val, IsDigitChar) = SelectSeq(case.s, IsDigitChar)

\* A camel string of two words, the first with a digit, was converted to
\* screaming snake case.
C5_Witness ==
    /\ Converted
    /\ origin = "which_case"
    /\ case.tag = "Camel"
    /\ IsDigitChar(case.s[2])
    /\ target = "screaming_snake"
    /\ result.kind = "Ok"
    /\ Len(result.val) = Len(case.s) + 1

Stripped == origin = "from_hungarian_notation"

\* The length of the leading run of s: the longest prefix made of lowercase
\* letters followed by digits.
LeadingRunLen(s) ==
    CHOOSE k \in 0..Len(s) :
        /\ LettersThenDigits(SubSeq(s, 1, k), AsciiLower)
        /\ \A j \in (k + 1)..Len(s) : ~LettersThenDigits(SubSeq(s, 1, j), AsciiLower)

C7_NonAsciiInvalid ==
    (Classified /\ \E i \in 1..Len(identifier) : ~IsAscii(identifier[i])) =>
        /\ case.tag = "Invalid"
        /\ \A n \in 1..Len(GrammarOrder) : ~Matches(GrammarOrder[n], identifier)

FiveTags == {"ScreamingSnake", "Snake", "Kebab", "Camel", "Pascal"}

\* A string tagged with one of the five conventions was converted, the result
\* was classified, and that was converted back to the first convention.
WentRound ==
    /\ prev # NoPrev
    /\ prev.case.tag \in FiveTags
    /\ Converted
    /\ TagOf(target) = prev.case.tag

\* C8 as claimed: converting a string of convention X to any convention Y,
\* classifying the result and converting back to X gives the string again.
C8_Original == WentRound => result = Ok(prev.case.s)

\* C8 as amended: converting a string of convention X to any convention Y,
\* classifying the result and converting back to X gives the string again,
\* unless which_case tags the intermediate string SingleWord; that happens
\* only for Y = pascal (every word of the string a single letter, digits after
\* the last only), and then the result is Ok but is not the string.
C8_RoundTrip ==
    WentRound =>
        /\ result.kind = "Ok"
        /\ result = Ok(prev.case.s) <=> case.tag # "SingleWord"
        /\ case.tag = "SingleWord" => prev.target = "pascal"
        /\ case.tag # "SingleWord" => case.tag = TagOf(prev.target)

\* A camel string went to kebab case and back.
C8_Witness ==
    /\ WentRound
    /\ prev.case.tag = "Camel"
    /\ prev.target = "kebab"
    /\ case.tag = "Kebab"
    /\ result = Ok(prev.case.s)

\* The test built its five strings and none of them is a single word.
BuiltMultiWord ==
    /\ Len(strs) = 5
    /\ \A i \in 1..5 : ~is_single_word(strs[i])

\* C9: for a word of the single-word grammar and its five variants (1 to 5
\* repetitions each), when no variant is itself a single word, every variant
\* satisfies exactly one of the five predicates, the one it was built for;
\* the 25 evaluations hold exactly 5 true results and the test passes.
C9_ExactlyOneFormat ==
    BuiltMultiWord =>
        /\ \A i \in 1..5 : \A j \in 1..5 : Checker(Formats[j], strs[i]) <=> (i = j)
        /\ verdict = "pass"

\* A capitalised word with a digit gave five multi-word strings, the pascal
\* one with the most repetitions.
C9_Witness ==
    /\ BuiltMultiWord
    /\ verdict = "pass"
    /\ is_single_word(identifier)
    /\ identifier[1] \in AsciiUpper
    /\ \E i \in 1..Len(identifier) : IsDigitChar(identifier[i])
    /\ strs[5] = repeat(identifier, MaxRepeat)

\* The orders in which the five checks after the single word check can run.
FiveOrders == {p \in [1..5 -> FiveTags] : \A i, j \in 1..5 : p[i] = p[j] => i = j}

\* The tag an if/else chain gives when it tries the single word check and then
\* the checks of order p, matching being the set of tags whose predicate holds.
FirstIn(p, matching) ==
    IF "SingleWord" \in matching THEN "SingleWord"
    ELSE IF \A i \in 1..5 : p[i] \notin matching THEN "Invalid"
    ELSE p[CHOOSE i \in 1..5 : p[i] \in matching /\ \A j \in 1..(i - 1) : p[j] \notin matching]

\* which_case has just returned.
JustClassified == Classified /\ result = NoResult

\* C11: outside the single-word grammar the five format grammars are pairwise
\* disjoint: a string that is not a single word satisfies at most one of
\* is_screaming_snake, is_snake, is_kebab, is_camel, is_pascal; so whatever the
\* order of the last five checks of which_case, the tag returned is the same.
C11_PairwiseDisjoint ==
    JustClassified =>
        LET matching == {tag \in Tags \ {"Invalid"} : Matches(tag, identifier)}
        IN /\ ~is_single_word(identifier) => Cardinality(matching \cap FiveTags) <= 1
           /\ \A p \in FiveOrders : FirstIn(p, matching) = case.tag

\* A string of several words that only the last check of the chain accepts.
C11_Witness ==
    /\ JustClassified
    /\ ~is_single_word(identifier)
    /\ case.tag = "Pascal"
    /\ {tag \in FiveTags : Matches(tag, identifier)} = {"Pascal"}

\* C12: when from_hungarian_notation returns Pascal(r), r is not empty and is
\* of the pascal grammar, every word extracted from the identifier after the
\* first starts with an uppercase letter, and each of the five to_* methods
\* called on the value returns Ok (no Err, no panic).
C12_StrippedIsPascal ==
    (Stripped /\ case.tag = "Pascal") =>
        LET words == extract_words_from(NamingCase("Camel", identifier)).words
        IN /\ Len(case.s) > 0
           /\ is_pascal(case.s)
           /\ Len(words) >= 2
           /\ \A n \in 2..Len(words) : Len(words[n]) > 0 /\ words[n][1] \in AsciiUpper
           /\ Converted => result.kind = "Ok"

\* to_camel was called on the Pascal value of a stripped identifier.
C12_Witness ==
    /\ Stripped
    /\ case.tag = "Pascal"
    /\ Len(case.s) < Len(identifier)
    /\ target = "camel"
    /\ result.kind = "Ok"

\* A string was converted, the result was classified, and the same conversion
\* was called on that.
ConvertedTwice ==
    /\ prev # NoPrev
    /\ prev.case.tag # "Invalid"
    /\ Converted
    /\ target = prev.target

\* C13 as claimed: for a string which_case does not tag Invalid and each
\* target X, with r the result of to_X, which_case(r).to_X() is Ok(r).
C13_Original == ConvertedTwice => result = Ok(prev.result.val)

\* C13 as amended: for a string which_case does not tag Invalid and each
\* target X, with r the result of to_X, which_case(r).to_X() is Ok, and it is
\* Ok(r) unless X is pascal and r, tagged SingleWord, has more than one
\* uppercase letter (the string had several one-letter words); to_pascal then
\* lowercases every letter of r but the first.
C13_Idempotent ==
    ConvertedTwice =>
        /\ result.kind = "Ok"
        /\ result = Ok(prev.result.val) <=>
              ~(/\ target = "pascal"
                /\ case.tag = "SingleWord"
                /\ Cardinality(PositionsOf(prev.result.val, AsciiUpper)) >= 2)

\* A snake string of two words went to camel case, and the camel string to
\* camel case again.
C13_Witness ==
    /\ ConvertedTwice
    /\ prev.case.tag = "Snake"
    /\ ~is_single_word(prev.case.s)
    /\ target = "camel"
    /\ case.tag = "Camel"
    /\ result = Ok(prev.result.val)

====
